---- MODULE Spec2Model ----
(***************************************************************************)
(* The provider side of the retrieval-market protocol:                     *)
(* src/background/retrieval-market/Provider.js.                            *)
(*                                                                         *)
(* One Provider instance serves several connections.  Every connection has *)
(* its own pushable sink and its own `for await` loop over the inbound     *)
(* messages; the loops of different connections interleave at the awaits   *)
(* of the handlers, which are the steps of this model.  Deals are objects  *)
(* on a heap: ongoingDeals maps a deal id to an object, and sendBlocks     *)
(* keeps the reference it looked up across its awaits.                     *)
(***************************************************************************)
EXTENDS Integers, Sequences, FiniteSets, TLC

\* ------------------------------------------------------------------ bounds

\* Inbound messages handled in one behaviour, over all connections.
MaxMsgs == 3

\* Changes of the stored options in one behaviour.
MaxOptionChanges == 1

\* ------------------------------------------------------------- value sets

Conns == {"c1", "c2"}
DealIds == {"d1"}
KnownCid == "a"
UnknownCid == "b"
Cids == {KnownCid, UnknownCid}

\* this.lotus.wallet, and a wallet that is not the provider's
Wallet == "w1"
Wallets == {Wallet, "w2"}

\* the values a requester may offer for each term
OfferedSizes == {2, 3}
OfferedPrices == {1, 2}
OfferedIntervals == {1, 2, 3}
OfferedIncreases == {-1, 1, 2}

\* the <<paymentInterval, paymentIntervalIncrease>> the stored options take
OptionSettings == {<<2, 1>>, <<1, 0>>}

\* dealStatuses (inbound), and a status that is none of them
awaitingAcceptance == "awaitingAcceptance"
paymentChannelReady == "paymentChannelReady"
paymentSent == "paymentSent"
lastPaymentSent == "lastPaymentSent"
bogus == "bogus"
\* dealStatuses (outbound)
accepted == "accepted"
fundsNeeded == "fundsNeeded"
fundsNeededLastPayment == "fundsNeededLastPayment"
completed == "completed"

\* the content of the datastore: the chunk lengths of each stored content
Content == [c \in {KnownCid} |-> <<1, 2>>]

RECURSIVE SeqSum(_)
SeqSum(s) == IF s = <<>> THEN 0 ELSE Head(s) + SeqSum(Tail(s))

ContentSize(cid) == SeqSum(Content[cid])

\* knownCids of the stored options
knownCids == [c \in {KnownCid} |-> [size |-> ContentSize(c)]]

\* the pricesPerByte tables the stored options may hold (key "*" is the wildcard)
PriceTables ==
    { [k \in {KnownCid, "*"} |-> IF k = KnownCid THEN 2 ELSE 1],
      [k \in {"*"} |-> 2] }

\* the settings stored at start
FirstSettings == <<2, 1>>

\* terms the provider accepts at start, and the offers that differ from them in
\* one term
BaseParams == [wallet |-> Wallet, size |-> ContentSize(KnownCid), pricePerByte |-> 2,
               paymentInterval |-> 2, paymentIntervalIncrease |-> 1]
Params ==
    {[BaseParams EXCEPT !.wallet = w] : w \in Wallets}
    \cup {[BaseParams EXCEPT !.size = n] : n \in OfferedSizes}
    \cup {[BaseParams EXCEPT !.pricePerByte = n] : n \in OfferedPrices}
    \cup {[BaseParams EXCEPT !.paymentInterval = n] : n \in OfferedIntervals}
    \cup {[BaseParams EXCEPT !.paymentIntervalIncrease = n] : n \in OfferedIncreases}

\* a message without cid and params
NoCid == ""
NoParams == [wallet |-> "", size |-> 0, pricePerByte |-> 0,
             paymentInterval |-> 0, paymentIntervalIncrease |-> 0]
NoMsg == [status |-> "", dealId |-> "", cid |-> NoCid, params |-> NoParams]
NoResult == [dealId |-> "", error |-> ""]

NewDealMessages ==
    [status : {awaitingAcceptance}, dealId : DealIds, cid : {KnownCid}, params : Params]
    \cup [status : {awaitingAcceptance}, dealId : DealIds, cid : {UnknownCid},
          params : {BaseParams}]
OtherMessages ==
    [status : {paymentChannelReady, paymentSent, lastPaymentSent, bogus},
     dealId : DealIds, cid : {NoCid}, params : {NoParams}]
Messages == NewDealMessages \cup OtherMessages

\* ------------------------------------------------------------------- heap

ObjIds == 1 .. (Cardinality(DealIds) + Cardinality(Conns))
\* ongoingDeals[dealId] of an absent key, and a `deal` local that is not set
NoObj == 0
Free == [id |-> "free"]

VARIABLES
    ongoingDeals,            \* this.ongoingDeals: deal id -> object (or NoObj)
    heap,                    \* the deal objects
    paymentInterval,         \* this.paymentInterval
    paymentIntervalIncrease, \* this.paymentIntervalIncrease
    options,                 \* the stored options getOptions resolves with
    reloading,               \* the getOptions reads updateOptions is awaiting, oldest first
    optionChanges,           \* option changes so far
    pc,                      \* per connection: where its handler is suspended
    msg,                     \* per connection: the message of the current iteration
    deal,                    \* per connection: sendBlocks' `deal`
    offset,                  \* per connection: the offset given to entry.content
    blocks,                  \* per connection: sendBlocks' `blocks`, as <<from, length>>
    blocksSize,              \* per connection: sendBlocks' `blocksSize`
    sinkEnded,               \* per connection: sink.end() was called
    out,                     \* per connection: the messages pushed to the sink
    result,                  \* per connection: the deal id and the error logged of the last
                             \* iteration, once it is over
    nmsgs                    \* messages handled so far

vars == <<ongoingDeals, heap, paymentInterval, paymentIntervalIncrease, options,
          reloading, optionChanges, pc, msg, deal, offset, blocks, blocksSize,
          sinkEnded, out, result, nmsgs>>

optVars == <<paymentInterval, paymentIntervalIncrease, options, reloading,
             optionChanges>>
localVars == <<deal, offset, blocks, blocksSize>>

\* the objects reachable from the table or from a suspended sendBlocks
Live(od, refs) == {od[d] : d \in DealIds} \cup {refs[c] : c \in Conns}

\* unreachable objects are collected
Collect(h, od, refs) == [o \in ObjIds |-> IF o \in Live(od, refs) THEN h[o] ELSE Free]

NewObj == CHOOSE o \in ObjIds : heap[o] = Free /\ \A p \in ObjIds : heap[p] = Free => o <= p

Init ==
    /\ ongoingDeals = [d \in DealIds |-> NoObj]
    /\ heap = [o \in ObjIds |-> Free]
    /\ options \in [paymentInterval : {FirstSettings[1]},
                    paymentIntervalIncrease : {FirstSettings[2]},
                    pricesPerByte : PriceTables,
                    knownCids : {knownCids}]
    /\ paymentInterval = options.paymentInterval
    /\ paymentIntervalIncrease = options.paymentIntervalIncrease
    /\ reloading = <<>>
    /\ optionChanges = 0
    /\ pc = [c \in Conns |-> "idle"]
    /\ msg = [c \in Conns |-> NoMsg]
    /\ deal = [c \in Conns |-> NoObj]
    /\ offset = [c \in Conns |-> 0]
    /\ blocks = [c \in Conns |-> <<>>]
    /\ blocksSize = [c \in Conns |-> 0]
    /\ sinkEnded = [c \in Conns |-> FALSE]
    /\ out = [c \in Conns |-> <<>>]
    /\ result = [c \in Conns |-> NoResult]
    /\ nmsgs = 0

\* ------------------------------------------------------------ the sinks

\* sink.push(m) on the sink of connection s: it-pushable drops a push after end()
Push(o, s, m) == IF sinkEnded[s] THEN o ELSE [o EXCEPT ![s] = Append(@, m)]

\* ------------------------------------------------- the handlers' endings

\* the iteration on c is over with error e ("" for none): the message and
\* sendBlocks' locals are gone
Return(c, m, e) ==
    /\ pc' = [pc EXCEPT ![c] = "idle"]
    /\ msg' = [msg EXCEPT ![c] = NoMsg]
    /\ result' = [result EXCEPT ![c] =
                     [dealId |-> m.dealId, error |-> e]]
    /\ deal' = [deal EXCEPT ![c] = NoObj]
    /\ offset' = [offset EXCEPT ![c] = 0]
    /\ blocks' = [blocks EXCEPT ![c] = <<>>]
    /\ blocksSize' = [blocksSize EXCEPT ![c] = 0]

\* (mutant: the catch ends every sink)
ThrowEndsEverySink(c, m, e) ==
    /\ Return(c, m, e)
    /\ sinkEnded' = [s \in Conns |-> TRUE]
    /\ heap' = Collect(heap, ongoingDeals, deal')
    /\ UNCHANGED <<ongoingDeals, out, optVars>>

\* an error thrown while handling a message on c: the catch ends c's sink
Throw(c, m, e) ==
    /\ Return(c, m, e)
    /\ sinkEnded' = [sinkEnded EXCEPT ![c] = TRUE]
    /\ heap' = Collect(heap, ongoingDeals, deal')
    /\ UNCHANGED <<ongoingDeals, out, optVars>>

\* the handler on c suspends at an await: its iteration has no result yet
Await(c, m, at) ==
    /\ pc' = [pc EXCEPT ![c] = at]
    /\ msg' = [msg EXCEPT ![c] = m]
    /\ result' = [result EXCEPT ![c] = NoResult]
    /\ UNCHANGED <<ongoingDeals, heap, optVars, localVars, sinkEnded, out>>

\* the next message of c's source enters the loop body
Receive(c) ==
    /\ pc[c] = "idle"
    /\ nmsgs < MaxMsgs
    /\ nmsgs' = nmsgs + 1

\* --------------------------------------------------------- getDealParams

Null == [null |-> TRUE]

\* pricesPerByte[k]: <<>> is undefined
PriceAt(prices, k) == IF k \in DOMAIN prices THEN <<prices[k]>> ELSE <<>>

\* a || b on prices: undefined and 0 are falsy
JsOr(a, b) == IF a # <<>> /\ a[1] # 0 THEN a ELSE b

\* (mutant: terms are returned for a content id that is not known)
getDealParamsAnyCid(cid) ==
    [wallet |-> Wallet,
     size |-> IF cid \in DOMAIN options.knownCids
              THEN options.knownCids[cid].size ELSE 0,
     pricePerByte |-> JsOr(PriceAt(options.pricesPerByte, cid),
                           PriceAt(options.pricesPerByte, "*")),
     paymentInterval |-> paymentInterval,
     paymentIntervalIncrease |-> paymentIntervalIncrease]

getDealParams(cid) ==
    IF cid \in DOMAIN options.knownCids
    THEN [wallet |-> Wallet,
          size |-> options.knownCids[cid].size,
          pricePerByte |-> JsOr(PriceAt(options.pricesPerByte, cid),
                                PriceAt(options.pricesPerByte, "*")),
          paymentInterval |-> paymentInterval,
          paymentIntervalIncrease |-> paymentIntervalIncrease]
    ELSE Null

\* --------------------------------------------------------- handleNewDeal

\* (mutant: the existence check is missing)
DealExistsNever(dealId) == FALSE

\* this.ongoingDeals[dealId] is truthy
DealExists(dealId) == ongoingDeals[dealId] # NoObj

\* (mutant: the price check is missing)
TermsErrorNoPrice(params, currentParams) ==
    IF currentParams = Null THEN "Cannot read property 'wallet' of null"
    ELSE IF params.wallet # currentParams.wallet THEN "Not my wallet"
    ELSE IF params.paymentInterval > currentParams.paymentInterval
         THEN "Payment interval too large"
    ELSE IF params.paymentIntervalIncrease > currentParams.paymentIntervalIncrease
         THEN "Payment interval increase too large"
    ELSE ""

\* the term checks of handleNewDeal: the message of the error thrown, "" for none
TermsError(params, currentParams) ==
    IF currentParams = Null THEN "Cannot read property 'wallet' of null"
    ELSE IF params.wallet # currentParams.wallet THEN "Not my wallet"
    ELSE IF currentParams.pricePerByte # <<>>
            /\ params.pricePerByte < currentParams.pricePerByte[1]
         THEN "Price per byte too low"
    ELSE IF params.paymentInterval > currentParams.paymentInterval
         THEN "Payment interval too large"
    ELSE IF params.paymentIntervalIncrease > currentParams.paymentIntervalIncrease
         THEN "Payment interval increase too large"
    ELSE ""

\* handleNewDeal up to the await of getDealParams
handleNewDeal(c, m) ==
    IF DealExists(m.dealId)
    THEN Throw(c, m, "A deal already exists for the given id")
    ELSE Await(c, m, "getDealParams")

\* handleNewDeal from the return of getDealParams on
handleNewDealResume(c) ==
    /\ pc[c] = "getDealParams"
    /\ UNCHANGED nmsgs
    /\ LET m == msg[c]
           e == TermsError(m.params, getDealParams(m.cid))
           o == NewObj
       IN IF e # ""
          THEN Throw(c, m, e)
          ELSE /\ ongoingDeals' = [ongoingDeals EXCEPT ![m.dealId] = o]
               /\ heap' = Collect([heap EXCEPT ![o] =
                                      [id |-> m.dealId,
                                       status |-> awaitingAcceptance,
                                       cid |-> m.cid,
                                       params |-> m.params,
                                       sink |-> c,
                                       sizeSent |-> 0]],
                                  ongoingDeals', deal)
               \* sendDealAccepted
               /\ out' = Push(out, c, [dealId |-> m.dealId, status |-> accepted,
                                       blocks |-> <<>>])
               /\ Return(c, m, "")
               /\ UNCHANGED <<sinkEnded, optVars>>

\* ------------------------------------------------------------ sendBlocks

RECURSIVE ChunkFrom(_, _)
\* the length of the block entry.content yields at position pos: the rest of the
\* chunk pos lies in, 0 past the end
ChunkFrom(chunks, pos) ==
    IF chunks = <<>> THEN 0
    ELSE IF pos < Head(chunks) THEN Head(chunks) - pos
    ELSE ChunkFrom(Tail(chunks), pos - Head(chunks))

\* sendBlocks up to the await of datastore.get
sendBlocksStart(c, m) ==
    IF ongoingDeals[m.dealId] = NoObj
    THEN Throw(c, m, "Cannot read property 'cid' of undefined")
    ELSE /\ deal' = [deal EXCEPT ![c] = ongoingDeals[m.dealId]]
         /\ pc' = [pc EXCEPT ![c] = "datastore.get"]
         /\ msg' = [msg EXCEPT ![c] = m]
         /\ result' = [result EXCEPT ![c] = NoResult]
         /\ UNCHANGED <<ongoingDeals, heap, optVars, offset, blocks, blocksSize,
                        sinkEnded, out>>

\* checkPaymentVoucherValid has returned (it checks nothing)
checkPaymentVoucherValid(c) ==
    /\ pc[c] = "checkPaymentVoucherValid"
    /\ UNCHANGED nmsgs
    /\ sendBlocksStart(c, msg[c])

\* (mutant: the deal's interval is raised before the read, which may fail)
datastoreGetGrowsFirst(c) ==
    /\ pc[c] = "datastore.get"
    /\ UNCHANGED nmsgs
    /\ \E found \in BOOLEAN :
          IF ~found
          THEN /\ Return(c, msg[c], "datastore.get failed")
               /\ sinkEnded' = [sinkEnded EXCEPT ![c] = TRUE]
               /\ heap' = Collect([heap EXCEPT ![deal[c]].params.paymentInterval =
                                      @ + heap[deal[c]].params.paymentIntervalIncrease],
                                  ongoingDeals, deal')
               /\ UNCHANGED <<ongoingDeals, out, optVars>>
          ELSE /\ offset' = [offset EXCEPT ![c] = heap[deal[c]].sizeSent]
               /\ pc' = [pc EXCEPT ![c] = "content"]
               /\ UNCHANGED <<msg, ongoingDeals, heap, optVars, deal, blocks, blocksSize,
                              sinkEnded, out, result>>

\* datastore.get has settled; entry.content starts at deal.sizeSent
datastoreGet(c) ==
    /\ pc[c] = "datastore.get"
    /\ UNCHANGED nmsgs
    /\ \E found \in BOOLEAN :
          IF ~found
          THEN Throw(c, msg[c], "datastore.get failed")
          ELSE /\ offset' = [offset EXCEPT ![c] = heap[deal[c]].sizeSent]
               /\ pc' = [pc EXCEPT ![c] = "content"]
               /\ UNCHANGED <<msg, ongoingDeals, heap, optVars, deal, blocks, blocksSize,
                              sinkEnded, out, result>>

\* the loop leaves when blocksSize has reached the deal's payment interval
IntervalReached(size, d) == size >= d.params.paymentInterval

\* (mutant: > for >=)
ResponseStatusStrict(d, size) ==
    IF d.sizeSent + size > d.params.size THEN fundsNeededLastPayment ELSE fundsNeeded

\* the status of the response
ResponseStatus(d, size) ==
    IF d.sizeSent + size >= d.params.size THEN fundsNeededLastPayment ELSE fundsNeeded

\* sendBlocks after the loop: grow the interval, push the response, count the bytes
sendResponse(c) ==
    LET o == deal[c]
        d == heap[o]
    IN /\ out' = Push(out, d.sink,
                      [dealId |-> msg[c].dealId,
                       status |-> ResponseStatus(d, blocksSize[c]),
                       blocks |-> blocks[c]])
       /\ Return(c, msg[c], "")
       /\ heap' = Collect([heap EXCEPT
                              ![o].params.paymentInterval =
                                  @ + d.params.paymentIntervalIncrease,
                              ![o].sizeSent = @ + blocksSize[c]],
                          ongoingDeals, deal')
       /\ UNCHANGED <<ongoingDeals, sinkEnded, optVars>>

\* one turn of the for await: the iterator rejects, or gives the next block, or
\* the content has ended
readBlock(c) ==
    /\ pc[c] = "content"
    /\ UNCHANGED nmsgs
    /\ \E read \in BOOLEAN :
          IF ~read
          THEN Throw(c, msg[c], "entry.content failed")
          ELSE LET d == heap[deal[c]]
                   pos == offset[c] + blocksSize[c]
                   len == ChunkFrom(Content[d.cid], pos)
               IN IF len = 0
                  THEN sendResponse(c)
                  ELSE /\ blocks' = [blocks EXCEPT ![c] = Append(@, <<pos, len>>)]
                       /\ blocksSize' = [blocksSize EXCEPT ![c] = @ + len]
                       /\ pc' = [pc EXCEPT ![c] =
                                    IF IntervalReached(blocksSize[c] + len, d)
                                    THEN "break" ELSE "content"]
                       /\ UNCHANGED <<ongoingDeals, heap, optVars, msg, deal, offset,
                                      sinkEnded, out, result>>

\* the break has closed the iterator
breakLoop(c) ==
    /\ pc[c] = "break"
    /\ UNCHANGED nmsgs
    /\ sendResponse(c)

\* ------------------------------------------------------- lastPaymentSent

\* submitPaymentVoucher has returned (it submits nothing); sendDealCompleted
sendDealCompleted(c) ==
    /\ pc[c] = "submitPaymentVoucher"
    /\ UNCHANGED nmsgs
    /\ LET o == ongoingDeals[msg[c].dealId]
       IN IF o = NoObj
          THEN Throw(c, msg[c], "Cannot read property 'sink' of undefined")
          ELSE /\ out' = Push(out, heap[o].sink,
                              [dealId |-> msg[c].dealId, status |-> completed,
                               blocks |-> <<>>])
               /\ pc' = [pc EXCEPT ![c] = "sendDealCompleted"]
               /\ UNCHANGED <<ongoingDeals, heap, optVars, msg, localVars,
                              sinkEnded, result>>

\* (mutant: the entry is not deleted)
closeDealKeepsEntry(c) ==
    /\ pc[c] = "sendDealCompleted"
    /\ UNCHANGED nmsgs
    /\ LET o == ongoingDeals[msg[c].dealId]
       IN IF o = NoObj
          THEN Throw(c, msg[c], "Cannot read property 'sink' of undefined")
          ELSE /\ sinkEnded' = [sinkEnded EXCEPT ![heap[o].sink] = TRUE]
               /\ Return(c, msg[c], "")
               /\ heap' = Collect(heap, ongoingDeals, deal')
               /\ UNCHANGED <<ongoingDeals, out, optVars>>

closeDeal(c) ==
    /\ pc[c] = "sendDealCompleted"
    /\ UNCHANGED nmsgs
    /\ LET o == ongoingDeals[msg[c].dealId]
       IN IF o = NoObj
          THEN Throw(c, msg[c], "Cannot read property 'sink' of undefined")
          ELSE /\ sinkEnded' = [sinkEnded EXCEPT ![heap[o].sink] = TRUE]
               /\ ongoingDeals' = [ongoingDeals EXCEPT ![msg[c].dealId] = NoObj]
               /\ Return(c, msg[c], "")
               /\ heap' = Collect(heap, ongoingDeals', deal')
               /\ UNCHANGED <<out, optVars>>

\* -------------------------------------------------------- handleProtocol

\* (mutant: the sink is not ended)
unknownStatusKeepsSink(c, m) ==
    /\ Return(c, m, "unknown deal message received")
    /\ heap' = Collect(heap, ongoingDeals, deal')
    /\ UNCHANGED <<ongoingDeals, out, optVars, sinkEnded>>

\* default: the sink is ended
unknownStatus(c, m) ==
    /\ Return(c, m, "unknown deal message received")
    /\ sinkEnded' = [sinkEnded EXCEPT ![c] = TRUE]
    /\ heap' = Collect(heap, ongoingDeals, deal')
    /\ UNCHANGED <<ongoingDeals, out, optVars>>

\* one turn of the loop over c's source, up to the handler's first await
handleProtocol(c, m) ==
    /\ Receive(c)
    /\ CASE m.status = awaitingAcceptance -> handleNewDeal(c, m)
         [] m.status = paymentChannelReady -> sendBlocksStart(c, m)
         [] m.status = paymentSent -> Await(c, m, "checkPaymentVoucherValid")
         [] m.status = lastPaymentSent -> Await(c, m, "submitPaymentVoucher")
         [] OTHER -> unknownStatus(c, m)

caseAwaitingAcceptance(c, m) == m.status = awaitingAcceptance /\ handleProtocol(c, m)
casePaymentChannelReady(c, m) == m.status = paymentChannelReady /\ handleProtocol(c, m)
casePaymentSent(c, m) == m.status = paymentSent /\ handleProtocol(c, m)
caseLastPaymentSent(c, m) == m.status = lastPaymentSent /\ handleProtocol(c, m)
caseDefault(c, m) == m.status = bogus /\ handleProtocol(c, m)

\* --------------------------------------------------------------- options

\* the stored paymentInterval / paymentIntervalIncrease change: handleOptionsChange
\* calls updateOptions, whose getOptions reads the options now and resolves later
handleOptionsChange(new) ==
    /\ optionChanges < MaxOptionChanges
    /\ new # <<options.paymentInterval, options.paymentIntervalIncrease>>
    /\ optionChanges' = optionChanges + 1
    /\ options' = [options EXCEPT !.paymentInterval = new[1],
                                  !.paymentIntervalIncrease = new[2]]
    /\ reloading' = Append(reloading, options')
    /\ UNCHANGED <<ongoingDeals, heap, paymentInterval, paymentIntervalIncrease,
                   pc, msg, localVars, sinkEnded, out, result, nmsgs>>

\* (mutant: the new increase is written into the stored deals too)
updateOptionsRewritesDeals ==
    /\ reloading # <<>>
    /\ paymentInterval' = Head(reloading).paymentInterval
    /\ paymentIntervalIncrease' = Head(reloading).paymentIntervalIncrease
    /\ reloading' = Tail(reloading)
    /\ heap' = [o \in DOMAIN heap |->
                  IF \E d \in DealIds : ongoingDeals[d] = o
                  THEN [heap[o] EXCEPT !.params.paymentIntervalIncrease =
                           Head(reloading).paymentIntervalIncrease]
                  ELSE heap[o]]
    /\ UNCHANGED <<ongoingDeals, options, optionChanges, pc, msg, localVars,
                   sinkEnded, out, result, nmsgs>>

\* getOptions has resolved: both cached settings are assigned
updateOptions ==
    /\ reloading # <<>>
    /\ paymentInterval' = Head(reloading).paymentInterval
    /\ paymentIntervalIncrease' = Head(reloading).paymentIntervalIncrease
    /\ reloading' = Tail(reloading)
    /\ UNCHANGED <<ongoingDeals, heap, options, optionChanges, pc, msg, localVars,
                   sinkEnded, out, result, nmsgs>>

\* (mutant: paymentInterval is assigned before the throw)
updateOptionsFailsHalfway ==
    /\ reloading # <<>>
    /\ reloading' = Tail(reloading)
    /\ paymentInterval' = Head(reloading).paymentInterval
    /\ UNCHANGED <<ongoingDeals, heap, paymentIntervalIncrease,
                   options, optionChanges, pc, msg, localVars, sinkEnded, out,
                   result, nmsgs>>

\* getOptions has rejected: updateOptions throws before its assignments and the
\* catch of handleOptionsChange logs the error
updateOptionsFails ==
    /\ reloading # <<>>
    /\ reloading' = Tail(reloading)
    /\ UNCHANGED <<ongoingDeals, heap, paymentInterval, paymentIntervalIncrease,
                   options, optionChanges, pc, msg, localVars, sinkEnded, out,
                   result, nmsgs>>

\* ------------------------------------------------------------------ spec

Next ==
    \/ \E c \in Conns, m \in Messages : caseAwaitingAcceptance(c, m)
    \/ \E c \in Conns : handleNewDealResume(c)
    \/ \E c \in Conns, m \in Messages : casePaymentChannelReady(c, m)
    \/ \E c \in Conns, m \in Messages : casePaymentSent(c, m)
    \/ \E c \in Conns : checkPaymentVoucherValid(c)
    \/ \E c \in Conns : datastoreGet(c)
    \/ \E c \in Conns : readBlock(c)
    \/ \E c \in Conns : breakLoop(c)
    \/ \E c \in Conns, m \in Messages : caseLastPaymentSent(c, m)
    \/ \E c \in Conns : sendDealCompleted(c)
    \/ \E c \in Conns : closeDeal(c)
    \/ \E c \in Conns, m \in Messages : caseDefault(c, m)
    \/ \E new \in OptionSettings : handleOptionsChange(new)
    \/ updateOptions

Spec == Init /\ [][Next]_vars

\* The configuration reloads and the validation of new deals that reads the cached
\* settings, with a getOptions that may reject.
NextReload ==
    \/ \E c \in Conns, m \in Messages : caseAwaitingAcceptance(c, m)
    \/ \E c \in Conns : handleNewDealResume(c)
    \/ \E new \in OptionSettings : handleOptionsChange(new)
    \/ updateOptions
    \/ updateOptionsFails

SpecReload == Init /\ [][NextReload]_vars

\* requests whose params.size is larger than the stored content
OversizeMessages ==
    [status : {awaitingAcceptance}, dealId : DealIds, cid : {KnownCid},
     params : {[BaseParams EXCEPT !.size = ContentSize(KnownCid) + 1]}]

\* The provider with requesters that may also offer an oversized deal.
NextOversize ==
    \/ Next
    \/ \E c \in Conns, m \in OversizeMessages : caseAwaitingAcceptance(c, m)

SpecOversize == Init /\ [][NextOversize]_vars

\* ---------------------------------------------------------------- claims

\* the deal id is a key of ongoingDeals, and its entry
Stored(d) == ongoingDeals[d] # NoObj
Deal(d) == heap[ongoingDeals[d]]

\* connection c pushes the response of a delivery cycle in this step
Responds(c) == pc[c] \in {"content", "break"} /\ pc'[c] = "idle"

\* connection c leaves handleNewDeal in this step
LeavesNewDeal(c) == pc[c] = "getDealParams" /\ pc'[c] = "idle"

\* nothing of the deal table, the deals or the sinks' queues changes in this step
NoEffect == ongoingDeals' = ongoingDeals /\ heap' = heap /\ out' = out

\* C1: for every deal stored in ongoingDeals, sizeSent never decreases and never
\* exceeds the deal's params.size.
C1_SizeSentBounded ==
    [][\A d \in DealIds :
          /\ (Stored(d) /\ ongoingDeals'[d] = ongoingDeals[d])
                => heap'[ongoingDeals[d]].sizeSent >= Deal(d).sizeSent
          /\ ongoingDeals'[d] # NoObj
                => heap'[ongoingDeals'[d]].sizeSent
                      <= heap'[ongoingDeals'[d]].params.size]_vars

\* C2: a delivery cycle that releases content for a deal that has already been
\* sent content answers a paymentSent message, never a paymentChannelReady.
C2_CyclePaidFor ==
    [][\A c \in Conns :
          (Responds(c) /\ blocksSize[c] > 0 /\ heap[deal[c]].sizeSent > 0)
             => msg[c].status = paymentSent]_vars

\* what every step that takes a new-deal message on c does, however the message
\* is answered: c was idle, the message is counted, c ends idle or suspended at
\* getDealParams, and no other handler moves
TakesNewDeal(c) ==
    /\ pc[c] = "idle"
    /\ nmsgs' # nmsgs
    /\ pc'[c] \in {"idle", "getDealParams"}
    /\ \A s \in Conns \ {c} : pc'[s] = pc[s]

\* C3: an awaitingAcceptance message whose dealId is a key of ongoingDeals when it
\* is handled is rejected whatever its terms are: the error is thrown, the entry
\* and every deal stay as they were, nothing is pushed to any sink and the sink of
\* the receiving connection is ended.
C3_DuplicateRejected ==
    [][\A c \in Conns, d \in DealIds :
          (Stored(d) /\ TakesNewDeal(c)
              /\ \E m \in NewDealMessages : m.dealId = d /\ handleProtocol(c, m))
             => /\ result'[c] = [dealId |-> d,
                                 error |-> "A deal already exists for the given id"]
                /\ pc'[c] = "idle"
                /\ NoEffect
                /\ sinkEnded'[c]]_vars

\* a duplicate request was rejected on a connection while the deal is stored
C3_Witness ==
    \E c \in Conns :
       /\ result[c].error = "A deal already exists for the given id"
       /\ Stored(result[c].dealId)
       /\ sinkEnded[c]
       /\ out[c] = <<>>

\* C4: once a deal with id d is stored, its entry is not replaced by another deal
\* before it has been removed.
C4_NeverOverwritten ==
    [][\A d \in DealIds :
          (Stored(d) /\ ongoingDeals'[d] # NoObj)
             => ongoingDeals'[d] = ongoingDeals[d]]_vars

\* C5: an awaitingAcceptance message for a content id with no entry in knownCids
\* creates no deal: getDealParams returns null, the handling ends with an error,
\* ongoingDeals and the deals are unchanged, nothing is pushed and the sink of the
\* connection is ended.
C5_UnknownCidRejected ==
    [][/\ \A c \in Conns, m \in NewDealMessages :
             (m.cid \notin DOMAIN options.knownCids /\ TakesNewDeal(c)
                 /\ handleProtocol(c, m))
                => NoEffect /\ (pc'[c] = "idle" => sinkEnded'[c] /\ result'[c].error # "")
       /\ \A c \in Conns :
             (LeavesNewDeal(c) /\ msg[c].cid \notin DOMAIN options.knownCids)
                => /\ getDealParams(msg[c].cid) = Null
                   /\ result'[c].error = "Cannot read property 'wallet' of null"
                   /\ NoEffect
                   /\ sinkEnded'[c]]_vars

\* a request for an unknown content id has failed and no deal is stored
C5_Witness ==
    \E c \in Conns :
       /\ result[c].error = "Cannot read property 'wallet' of null"
       /\ sinkEnded[c]
       /\ out[c] = <<>>
       /\ \A d \in DealIds : ~Stored(d)

\* the price the provider asks for a content id: its own price, else the wildcard's
ProviderPrice(cid) ==
    IF cid \in DOMAIN options.pricesPerByte
    THEN options.pricesPerByte[cid]
    ELSE options.pricesPerByte["*"]

\* the terms of new-deal message m pass every check against the current settings
TermsAcceptable(m) ==
    /\ m.cid \in DOMAIN options.knownCids
    /\ m.params.wallet = Wallet
    /\ m.params.pricePerByte >= ProviderPrice(m.cid)
    /\ m.params.paymentInterval <= paymentInterval
    /\ m.params.paymentIntervalIncrease <= paymentIntervalIncrease

\* the message pushed to the sink of s in this step, when there is one
Pushed(s) == Len(out'[s]) = Len(out[s]) + 1
LastPushed(s) == out'[s][Len(out'[s])]

\* C6: a deal is stored, and an accepted message pushed, only by a handleNewDeal
\* whose message passes every term check when the checks are made; a message that
\* fails one is rejected and changes nothing.
C6_OnlyAcceptableTermsAccepted ==
    [][/\ \A d \in DealIds :
             (ongoingDeals'[d] # NoObj /\ ongoingDeals'[d] # ongoingDeals[d])
                => \E c \in Conns :
                      /\ LeavesNewDeal(c)
                      /\ msg[c].dealId = d
                      /\ TermsAcceptable(msg[c])
                      /\ heap'[ongoingDeals'[d]].params = msg[c].params
       /\ \A c \in Conns :
             (Pushed(c) /\ LastPushed(c).status = accepted)
                => LeavesNewDeal(c) /\ TermsAcceptable(msg[c])
       /\ \A c \in Conns :
             (LeavesNewDeal(c) /\ ~TermsAcceptable(msg[c]))
                => NoEffect /\ result'[c].error # "" /\ sinkEnded'[c]]_vars

\* one connection holds an accepted deal, the other had an offer below the price
\* rejected
C6_Witness ==
    \E c, r \in Conns, d \in DealIds :
       /\ Stored(d) /\ Deal(d).sink = c
       /\ out[c] = <<[dealId |-> d, status |-> accepted, blocks |-> <<>>]>>
       /\ result[r].error = "Price per byte too low"
       /\ sinkEnded[r] /\ out[r] = <<>>

\* the handling on c fails in this step and changes nothing
Fails(c) ==
    /\ NoEffect
    /\ pc'[c] = "idle"
    /\ result'[c].error # ""
    /\ sinkEnded'[c]

\* the completed message of deal id d was pushed to the sink of c
CompletedOn(c, d) ==
    \E i \in 1 .. Len(out[c]) : out[c][i].dealId = d /\ out[c][i].status = completed

\* a completed message was pushed for deal id d
Completed(d) == \E c \in Conns : CompletedOn(c, d)

\* C7 as stated: once the deal of a connection has been completed and removed, a
\* later awaitingAcceptance for its id on that connection stores no deal.
C7_NoDealAfterLastPayment ==
    [][\A c \in Conns :
          (LeavesNewDeal(c) /\ CompletedOn(c, msg[c].dealId))
             => ongoingDeals'[msg[c].dealId] = ongoingDeals[msg[c].dealId]]_vars

\* C7 as amended: a lastPaymentSent handled to its end removes the deal id, and a
\* paymentChannelReady, paymentSent or lastPaymentSent message whose handler finds
\* the id absent fails: nothing changes, nothing is pushed, the receiving sink is
\* ended.
C7_AbsentDealFails ==
    [][/\ \A c \in Conns :
             (pc[c] = "sendDealCompleted" /\ pc'[c] = "idle" /\ result'[c].error = "")
                => ongoingDeals'[msg[c].dealId] = NoObj
       /\ \A c \in Conns, m \in OtherMessages :
             (handleProtocol(c, m) /\ m.status = paymentChannelReady
                 /\ ~Stored(m.dealId))
                => Fails(c)
       /\ \A c \in Conns :
             (pc[c] \in {"checkPaymentVoucherValid", "submitPaymentVoucher",
                         "sendDealCompleted"}
                 /\ pc'[c] # pc[c] /\ ~Stored(msg[c].dealId))
                => Fails(c)]_vars

\* a deal was completed and removed, and a later message for its id has failed
C7_Witness ==
    \E c \in Conns, d \in DealIds :
       /\ Completed(d) /\ ~Stored(d)
       /\ result[c].dealId = d
       /\ result[c].error \in {"Cannot read property 'cid' of undefined",
                               "Cannot read property 'sink' of undefined"}

RECURSIVE BlocksLength(_)
\* the bytes of a sequence of blocks
BlocksLength(b) == IF b = <<>> THEN 0 ELSE Head(b)[2] + BlocksLength(Tail(b))

\* C8: the response of a delivery cycle has status fundsNeededLastPayment exactly
\* when the deal's sizeSent plus the bytes of the response's blocks reaches the
\* deal's size, and fundsNeeded otherwise.
C8_ResponseStatus ==
    [][\A c \in Conns :
          (Responds(c) /\ result'[c].error = "" /\ Pushed(heap[deal[c]].sink))
             => LET d == heap[deal[c]]
                    r == LastPushed(d.sink)
                IN /\ r.status \in {fundsNeeded, fundsNeededLastPayment}
                   /\ r.status = fundsNeededLastPayment
                         <=> d.sizeSent + BlocksLength(r.blocks) >= d.params.size]_vars

\* a deal was answered fundsNeeded first and fundsNeededLastPayment later
C8_Witness ==
    \E c \in Conns : \E i, j \in 1 .. Len(out[c]) :
       /\ i < j
       /\ out[c][i].status = fundsNeeded
       /\ out[c][j].status = fundsNeededLastPayment
       /\ out[c][i].dealId = out[c][j].dealId

\* C9: the paymentInterval of a stored deal never decreases.
C9_IntervalNeverDecreases ==
    [][\A d \in DealIds :
          (Stored(d) /\ ongoingDeals'[d] = ongoingDeals[d])
             => heap'[ongoingDeals[d]].params.paymentInterval
                   >= Deal(d).params.paymentInterval]_vars

\* C10: a message whose status is none of awaitingAcceptance, paymentChannelReady,
\* paymentSent, lastPaymentSent ends the sink of the receiving connection, leaves
\* ongoingDeals and every deal as they were and pushes nothing.
C10_UnknownStatus ==
    [][\A c \in Conns, m \in Messages :
          (m.status \notin {awaitingAcceptance, paymentChannelReady,
                            paymentSent, lastPaymentSent}
              /\ handleProtocol(c, m))
             => NoEffect /\ sinkEnded'[c] /\ pc'[c] = "idle"]_vars

\* an unknown status was received on the connection of a stored deal, whose entry
\* is still there
C10_Witness ==
    \E c \in Conns, d \in DealIds :
       /\ result[c].error = "unknown deal message received"
       /\ sinkEnded[c]
       /\ Stored(d) /\ Deal(d).sink = c
       /\ out[c] = <<[dealId |-> d, status |-> accepted, blocks |-> <<>>]>>

\* C11: no entry of ongoingDeals holds an ended sink: when the sink of a
\* connection is ended by an error or an unknown status, the deals whose sink it
\* is are removed.
C11_NoStoredDealOnEndedSink ==
    \A d \in DealIds : Stored(d) => ~sinkEnded[Deal(d).sink]

\* a message that answers a cycle with fundsNeededLastPayment was pushed for deal
\* id d
LastPaymentAsked(d) ==
    \E s \in Conns : \E i \in 1 .. Len(out[s]) :
       out[s][i].dealId = d /\ out[s][i].status = fundsNeededLastPayment

\* C12: the completed message of a deal is pushed only when all of its content
\* has been delivered: sizeSent has reached params.size and a
\* fundsNeededLastPayment was pushed for it before.
C12_CompletedAfterDelivery ==
    [][\A c \in Conns :
          (pc[c] = "submitPaymentVoucher" /\ pc'[c] = "sendDealCompleted")
             => /\ Deal(msg[c].dealId).sizeSent >= Deal(msg[c].dealId).params.size
                /\ LastPaymentAsked(msg[c].dealId)]_vars

\* C13: a step of the handler of a message received on connection c pushes to no
\* sink but c's and ends no sink but c's.
C13_OwnSinkOnly ==
    [][\A c \in Conns :
          (pc[c] # "idle" /\ pc'[c] # pc[c])
             => \A s \in Conns \ {c} :
                   out'[s] = out[s] /\ sinkEnded'[s] = sinkEnded[s]]_vars

\* C14: a delivery cycle run for a message of connection c on the stored deal
\* whose sink is c's, when that sink has been ended, pulls no content and leaves
\* the deal's sizeSent and paymentInterval as they were.
C14_NoTransitionAfterEnd ==
    [][\A c \in Conns :
          (Responds(c) /\ result'[c].error = ""
              /\ sinkEnded[c] /\ heap[deal[c]].sink = c
              /\ ongoingDeals[msg[c].dealId] = deal[c])
             => /\ blocks[c] = <<>>
                /\ heap'[deal[c]].sizeSent = heap[deal[c]].sizeSent
                /\ heap'[deal[c]].params.paymentInterval
                      = heap[deal[c]].params.paymentInterval]_vars

\* the entries of ongoingDeals and the deals they hold are the same after this step
DealsUnchanged ==
    \A d \in DealIds :
       /\ ongoingDeals'[d] = ongoingDeals[d]
       /\ Stored(d) => heap'[ongoingDeals[d]] = heap[ongoingDeals[d]]

\* the sinks other than c's and the handlers of the other connections are as they
\* were, c's sink is ended, its loop is ready for the next message, and nothing
\* was pushed and no deal changed
OnlyOwnSinkEnded(c) ==
    /\ sinkEnded'[c] /\ pc'[c] = "idle"
    /\ \A s \in Conns \ {c} : sinkEnded'[s] = sinkEnded[s] /\ pc'[s] = pc[s]
    /\ out' = out
    /\ DealsUnchanged

\* C15: a message of connection c whose handling fails (a rejected offer, a deal
\* id that is not stored, a storage error) ends the sink of c only: the other
\* sinks and handlers are as before, nothing is pushed, ongoingDeals and its
\* deals are unchanged and c's loop goes on to the next message. The failure is
\* the last step of a handling that has awaited, or a message handled to its end
\* before any await (a step that receives a message and suspends no handler).
C15_FailureEndsOwnSinkOnly ==
    [][/\ \A c \in Conns :
             (pc[c] # "idle" /\ pc'[c] = "idle" /\ result'[c].error # "")
                => OnlyOwnSinkEnded(c)
       /\ (pc' = pc /\ nmsgs' # nmsgs)
             => \E c \in Conns :
                   /\ pc[c] = "idle" /\ result'[c].error # ""
                   /\ OnlyOwnSinkEnded(c)
                   /\ \A s \in Conns \ {c} : result'[s] = result[s]]_vars

\* a storage error has ended the sink of a connection while the deal of the other
\* connection is stored and its sink open
C15_Witness ==
    \E c, s \in Conns, d \in DealIds :
       /\ c # s
       /\ result[c] = [dealId |-> d, error |-> "datastore.get failed"]
       /\ sinkEnded[c] /\ ~sinkEnded[s]
       /\ Stored(d) /\ Deal(d).sink = s
       /\ out[s] = <<[dealId |-> d, status |-> accepted, blocks |-> <<>>]>>
       /\ pc[c] = "idle"

\* C16: the wallet, size, pricePerByte and paymentIntervalIncrease of a stored
\* deal never change (nor do its cid and sink): only params.paymentInterval and
\* sizeSent do; and a step that reloads the cached settings changes no deal.
C16_TermsFrozen ==
    [][/\ \A d \in DealIds :
             (Stored(d) /\ ongoingDeals'[d] = ongoingDeals[d])
                => heap'[ongoingDeals[d]]
                      = [Deal(d) EXCEPT
                            !.sizeSent = heap'[ongoingDeals[d]].sizeSent,
                            !.params.paymentInterval =
                               heap'[ongoingDeals[d]].params.paymentInterval]
       /\ (reloading' # reloading \/ paymentInterval' # paymentInterval
              \/ paymentIntervalIncrease' # paymentIntervalIncrease)
             => ongoingDeals' = ongoingDeals /\ heap' = heap]_vars

\* a deal has been through a delivery cycle and the cached settings have been
\* reloaded since the start: the deal keeps the increase it was accepted with
C16_Witness ==
    \E d \in DealIds :
       /\ Stored(d)
       /\ Deal(d).sizeSent > 0
       /\ Deal(d).params.paymentInterval > FirstSettings[1]
       /\ Deal(d).params.paymentIntervalIncrease = FirstSettings[2]
       /\ <<paymentInterval, paymentIntervalIncrease>> # FirstSettings
       /\ reloading = <<>>

\* C17: a reload whose getOptions rejects leaves the cached paymentInterval and
\* paymentIntervalIncrease both as they were; no step that ends a reload assigns
\* one of them without the other; and a new deal is then still validated against
\* the cached limits.
C17_FailedReloadKeepsBoth ==
    [][/\ updateOptionsFails
             => /\ paymentInterval' = paymentInterval
                /\ paymentIntervalIncrease' = paymentIntervalIncrease
                /\ pc' = pc /\ sinkEnded' = sinkEnded /\ ongoingDeals' = ongoingDeals
       /\ (reloading # <<>> /\ reloading' = Tail(reloading))
             => \/ /\ paymentInterval' = Head(reloading).paymentInterval
                   /\ paymentIntervalIncrease' = Head(reloading).paymentIntervalIncrease
                \/ /\ paymentInterval' = paymentInterval
                   /\ paymentIntervalIncrease' = paymentIntervalIncrease
       /\ \A c \in Conns :
             LeavesNewDeal(c)
                => (result'[c].error = "" <=> TermsAcceptable(msg[c]))]_vars

\* the only reload has failed: the cached settings are the previous ones, the
\* stored ones are new, and an offer that only the previous limits allow is about
\* to be validated
C17_Witness ==
    \E c \in Conns :
       /\ reloading = <<>>
       /\ optionChanges > 0
       /\ paymentInterval # options.paymentInterval
       /\ paymentIntervalIncrease # options.paymentIntervalIncrease
       /\ pc[c] = "getDealParams"
       /\ msg[c].params.paymentInterval > options.paymentInterval
       /\ TermsAcceptable(msg[c])

\* C18: a delivery cycle run for the paymentSent of a requester that has followed
\* the protocol alone (one push per message on its connection, no failure, the
\* other connections unused) delivers content or asks for the last payment.
C18_LastPaymentReached ==
    [][\A c \in Conns :
          (/\ Responds(c) /\ result'[c].error = ""
           /\ msg[c].status = paymentSent
           /\ ongoingDeals[msg[c].dealId] = deal[c]
           /\ heap[deal[c]].sink = c /\ ~sinkEnded[c]
           /\ Len(out[c]) = nmsgs - 1
           /\ \A i \in 2 .. Len(out[c]) : out[c][i].status = fundsNeeded
           /\ \A s \in Conns \ {c} :
                 out[s] = <<>> /\ result[s] = NoResult /\ pc[s] = "idle")
             => \/ blocks[c] # <<>>
                \/ LastPushed(c).status = fundsNeededLastPayment]_vars

\* C18, the part on each cycle: a delivery cycle that pushes no block started at
\* or past the end of the content, whatever the deal's paymentInterval is.
C18_CycleDeliversChunk ==
    [][\A c \in Conns :
          (Responds(c) /\ result'[c].error = "" /\ blocks[c] = <<>>)
             => offset[c] >= ContentSize(heap[deal[c]].cid)]_vars

\* C19: the offset a delivery cycle has read from is the deal's sizeSent when the
\* cycle pushes its response, that is the bytes delivered by the earlier cycles.
C19_CycleStartsAtSizeSent ==
    [][\A c \in Conns :
          (Responds(c) /\ result'[c].error = "")
             => offset[c] = heap[deal[c]].sizeSent]_vars

\* C20: a step that is not the last step of a handling that ends without error
\* leaves ongoingDeals and its deals as they were: the steps before a throw and
\* the throw itself change no entry, no sizeSent and no paymentInterval.
C20_ErrorLeavesDeals ==
    [][(\A c \in Conns :
           (pc[c] # "idle" /\ pc'[c] = "idle") => result'[c].error # "")
          => DealsUnchanged]_vars

\* the content iterator has failed in a delivery cycle of a stored deal, which is
\* as it was accepted
C20_Witness ==
    \E c \in Conns, d \in DealIds :
       /\ result[c] = [dealId |-> d, error |-> "entry.content failed"]
       /\ sinkEnded[c]
       /\ Stored(d)
       /\ Deal(d).sizeSent = 0
       /\ Deal(d).params \in Params
       /\ out[Deal(d).sink] = <<[dealId |-> d, status |-> accepted, blocks |-> <<>>]>>

====
